---- MODULE Spec2Model ----
(***************************************************************************)
(* LLM Council: the turn pipeline of the streaming message endpoint        *)
(* (send_message_stream.generate), its mode routing, its storage writes    *)
(* and its progress events.                                                *)
(*                                                                         *)
(* The backend is modelled from the code listings of src/sdd/TASKS.md.     *)
(* Where a listing elides code ("... rest of existing stage logic ...")    *)
(* or gives none (the cancellation checkpoints), the step is modelled from *)
(* spec.md and its comment says "spec-modelled".                           *)
(***************************************************************************)
EXTENDS Integers, Sequences, FiniteSets, TLC

(***************************************************************************)
(* Bounds of the model.                                                    *)
(***************************************************************************)
\* Number of turns submitted in one behaviour.
MaxTurns == 2
\* Number of turns submitted in one behaviour whose ending is followed.
MaxFairTurns == 1
\* Most turns of a stored conversation in the History Builder specification.
MaxStoredTurns == 3
\* Most turns of a stored conversation in the history summary specification.
MaxSummaryTurns == 4
\* Largest configured council in the Stage 1 specification.
MaxModels == 3

(***************************************************************************)
(* Values.                                                                 *)
(***************************************************************************)
ModelIds == <<"m1", "m2", "m3", "m4">>
CHAIRMAN_MODEL == "chairman-model"
\* request.mode is None
NoMode == "None"
RequestModes == {NoMode, "chairman", "council"}
\* The one conversation that exists in storage, and an id that does not.
ConvId == "conv"
MissingId == "missing"
\* A Gateway result: Failure (query_model returns None) or Ok(content).
Failure == <<>>
Ok(content) == <<content>>
Content(response) == response[1]
FailedText == "Failed to get response"
PlaceholderText == "Model failed to respond"
Query == "query"

VARIABLES
    council,           \* COUNCIL_MODELS, the configured council in order
    stored,            \* the stored conversation["messages"]
    titled,            \* the stored conversation has a generated title
    pc,                \* position of the turn in send_message_stream
    request,           \* MessageRequest of the turn in flight
    conversation,      \* messages loaded by the endpoint's validation
    is_first_message,  \* generate(): len(conversation["messages"]) == 0
    history,           \* generate(): build_conversation_history(...)
    mode,              \* generate(): the routed mode
    events,            \* SSE events yielded for the turn, in order
    outcome,           \* terminal state of the turn, "none" while running
    httpStatus,        \* 0 before the response, then 200 or 404
    cancelRequested,   \* a cancellation was requested for the turn
    pending,           \* Gateway calls in flight
    settled,           \* Gateway results of the current fan-out, by model
    order,             \* models of the current fan-out in completion order
    stage1,            \* Stage 1 results of the turn
    stage2,            \* Stage 2 results of the turn
    stage3,            \* Stage 3 / chairman result of the turn
    metadata,          \* label_to_model and aggregate_rankings of the turn
    result,            \* generate(): result of chat_with_chairman
    stage3_input,      \* arguments of the stage3_synthesize_final call
    storedAtSubmit,    \* the stored messages when the turn was submitted
    eventsAtCancel,    \* the events yielded when the cancellation was requested
    turns              \* turns submitted so far

\* The frontend: App.jsx, ChatInterface.jsx, api.js and DocumentPanel.
VARIABLES
    currentConversationId,  \* App: id of the selected conversation, or null
    currentConversation,    \* App: the displayed conversation, or null
    isLoading,              \* App: a turn is in progress
    crashed,                \* a state updater threw while rendering
    selections,             \* conversations selected in the sidebar so far
    chatMode,               \* ChatInterface: the mode state of the radio buttons
    includeDocuments,       \* ChatInterface: the "Include documents" checkbox
    documents,              \* ChatInterface: the documents prop
    streams,                \* the sendMessageStream calls made, by turn
    loads,                  \* api.getConversation calls in flight
    serverMessages,         \* the messages the backend stores, by conversation
    chunks,                 \* response body still to be read, as network chunks
    emitted,                \* the event types the server wrote to that body
    onEventCalls,           \* the event types onEvent was invoked with
    deleteConfirm,          \* DocumentPanel: the document awaiting confirmation
    timeouts,               \* DocumentPanel: the setTimeout callbacks pending
    onDeleteCalls,          \* DocumentPanel: the onDelete invocations made
    clicks,                 \* DocumentPanel: the documents whose delete button was clicked, in order
    confirmClick            \* the click that set deleteConfirm, 0 if none

appVars == <<currentConversationId, currentConversation, isLoading, crashed,
             selections>>
chatVars == <<chatMode, includeDocuments, documents>>
netVars == <<streams, loads, serverMessages>>
sseVars == <<chunks, emitted, onEventCalls>>
panelVars == <<deleteConfirm, timeouts, onDeleteCalls, clicks, confirmClick>>
frontend == <<appVars, chatVars, netVars, sseVars, panelVars>>

backend == <<council, stored, titled, pc, request, conversation, is_first_message,
             history, mode, events, outcome, httpStatus, cancelRequested, pending,
             settled, order, stage1, stage2, stage3, metadata, result,
             stage3_input,
             storedAtSubmit, eventsAtCancel, turns>>

vars == <<backend, frontend>>

turnLocals == <<request, conversation, is_first_message, history, mode>>
stageVars == <<stage1, stage2, stage3, metadata, result, stage3_input>>
fanout == <<pending, settled, order>>

NoResult == <<>>
Empty == [m \in {} |-> Failure]

\* null and undefined of the frontend.
Null == "null"
NoConversation == [id |-> Null, messages |-> <<>>]
NoDocument == "null"
NoDocuments == <<>>

\* The frontend before anything was selected, sent or clicked.
AppIdle ==
    /\ currentConversationId = Null
    /\ currentConversation = NoConversation
    /\ isLoading = FALSE
    /\ crashed = FALSE
    /\ selections = 0
ChatIdle ==
    /\ chatMode = "chairman"
    /\ includeDocuments = TRUE
    /\ documents = NoDocuments
NetIdle ==
    /\ streams = <<>>
    /\ loads = {}
    /\ serverMessages = <<>>
SseIdle ==
    /\ chunks = <<>>
    /\ emitted = <<>>
    /\ onEventCalls = <<>>
PanelIdle ==
    /\ deleteConfirm = NoDocument
    /\ timeouts = <<>>
    /\ onDeleteCalls = <<>>
    /\ clicks = <<>>
    /\ confirmClick = 0
FrontendIdle == AppIdle /\ ChatIdle /\ NetIdle /\ SseIdle /\ PanelIdle

(***************************************************************************)
(* Sequence helpers.                                                       *)
(***************************************************************************)
Range(s) == {s[i] : i \in DOMAIN s}
Last(s) == s[Len(s)]
IsPrefix(s, t) == Len(s) <= Len(t) /\ \A i \in 1..Len(s) : s[i] = t[i]
InjectiveSeqs(S, n) ==
    {s \in [1..n -> S] : \A i, j \in 1..n : i # j => s[i] # s[j]}

(***************************************************************************)
(* Stored messages (storage.py: add_user_message, add_assistant_message,   *)
(* add_chairman_message).                                                  *)
(***************************************************************************)
UserMessage(content) == [role |-> "user", content |-> content]

ChairmanMessage(chairman_response) ==
    [role |-> "assistant", chairman_response |-> chairman_response]

\* A council message stored before its synthesis is attached.
CouncilMessageWithoutStage3(s1, s2, s3) ==
    [role |-> "assistant", stage1 |-> s1, stage2 |-> s2]

\* add_assistant_message(conversation_id, stage1, stage2, stage3)
CouncilMessage(s1, s2, s3) ==
    [role |-> "assistant", stage1 |-> s1, stage2 |-> s2, stage3 |-> s3]

\* A cancelled message that keeps the Stage 1 results in hand.
CancelledPartial == [role |-> "assistant", cancelled |-> TRUE, stage1 |-> stage1]

\* The message stored for a cancelled turn, as ChatInterface reads it: an
\* assistant message with msg.cancelled set and no result field.
CancelledMessage == [role |-> "assistant", cancelled |-> TRUE]

Has(msg, field) == field \in DOMAIN msg

(***************************************************************************)
(* History Builder (main.py: build_conversation_history).                  *)
(***************************************************************************)
HistoryEntry(role, content) == [role |-> role, content |-> content]

\* The Stage 1 answers of a council message taken as its history.
HistoryOfStage1Answers(msg) ==
    IF msg.role = "user"
    THEN <<[role |-> "user", content |-> msg.content]>>
    ELSE IF "stage1" \in DOMAIN msg
         THEN [i \in 1..Len(msg.stage1) |->
                  [role |-> "assistant", content |-> msg.stage1[i].response]]
         ELSE IF "chairman_response" \in DOMAIN msg
              THEN <<[role |-> "assistant",
                      content |-> msg.chairman_response.response]>>
              ELSE <<>>

\* The entries one stored message contributes: msg.get("stage3") first, then
\* msg.get("chairman_response"); an assistant message with neither adds none.
HistoryOf(msg) ==
    IF msg.role = "user"
    THEN <<HistoryEntry("user", msg.content)>>
    ELSE IF Has(msg, "stage3")
         THEN <<HistoryEntry("assistant", msg.stage3.response)>>
         ELSE IF Has(msg, "chairman_response")
              THEN <<HistoryEntry("assistant", msg.chairman_response.response)>>
              ELSE <<>>

RECURSIVE build_conversation_history(_)
build_conversation_history(messages) ==
    IF messages = <<>>
    THEN <<>>
    ELSE build_conversation_history(SubSeq(messages, 1, Len(messages) - 1))
             \o HistoryOf(Last(messages))

(***************************************************************************)
(* History summary (council.py: format_history_summary).  Text is a        *)
(* string; Len, SubSeq and \o work on it character by character.           *)
(***************************************************************************)
\* max_turns: int = 3
max_turns == 3
\* msg["content"][:500] ... if len(msg["content"]) > 500
SummaryCap == 500
Ellipsis == "..."

\* The last max_turns entries, one per turn instead of two.
RecentOnePerTurn(h, turnCount) ==
    SubSeq(h, IF Len(h) > turnCount THEN Len(h) - turnCount + 1 ELSE 1, Len(h))

\* recent = history[-(max_turns * 2):]
Recent(h, turnCount) ==
    SubSeq(h, IF Len(h) > turnCount * 2 THEN Len(h) - turnCount * 2 + 1 ELSE 1, Len(h))

\* msg["content"][:500] + "..." if len(msg["content"]) > 500 else msg["content"]
Truncate(content) ==
    IF Len(content) > SummaryCap
    THEN SubSeq(content, 1, SummaryCap) \o Ellipsis
    ELSE content

\* f"{role}: {content}"
SummaryLine(msg) ==
    (IF msg.role = "user" THEN "User" ELSE "Assistant") \o ": " \o Truncate(msg.content)

\* sep.join(lines)
RECURSIVE Join(_, _)
Join(lines, sep) ==
    IF lines = <<>>
    THEN ""
    ELSE IF Len(lines) = 1
         THEN lines[1]
         ELSE Join(SubSeq(lines, 1, Len(lines) - 1), sep) \o sep \o Last(lines)

format_history_summary(h, turnCount) ==
    Join([i \in 1..Len(Recent(h, turnCount)) |-> SummaryLine(Recent(h, turnCount)[i])],
         "\n")

\* run_full_council: context_summary is None unless there is history.
NoContext == <<>>
Context(summary) == <<summary>>
context_summary(conversation_history) ==
    IF conversation_history # <<>>
    THEN Context(format_history_summary(conversation_history, max_turns))
    ELSE NoContext

(***************************************************************************)
(* Mode Router (main.py, generate()):                                      *)
(*   mode = "council" if is_first_message else (request.mode or "chairman")*)
(***************************************************************************)
\* The router without its first-message rule.
RouteModeIgnoringFirst(isFirst, requested) ==
    IF requested # NoMode THEN requested ELSE "chairman"

RouteMode(isFirst, requested) ==
    IF isFirst
    THEN "council"
    ELSE IF requested # NoMode THEN requested ELSE "chairman"

(***************************************************************************)
(* Chairman-Only Responder (council.py: chat_with_chairman).               *)
(***************************************************************************)
\* chat_with_chairman without the fallback text for a failed call.
ChairmanResultNoFallback(response) ==
    [model |-> CHAIRMAN_MODEL,
     response |-> IF response # Failure THEN Content(response) ELSE ""]

ChairmanResult(response) ==
    [model |-> CHAIRMAN_MODEL,
     response |-> IF response # Failure THEN Content(response) ELSE FailedText]

(***************************************************************************)
(* Stage 1 (council.py: stage1_collect_responses).  The listing ends at    *)
(* the query_models_parallel call; the recombination of the results is     *)
(* spec-modelled (spec.md 4.2).                                            *)
(***************************************************************************)
\* A failed call handed on as an answer without text.
ModelAnswerUnflagged(m, response) ==
    [model |-> m,
     response |-> IF response # Failure THEN Content(response) ELSE "",
     success |-> TRUE]

ModelAnswer(m, response) ==
    [model |-> m,
     response |-> IF response # Failure THEN Content(response) ELSE PlaceholderText,
     success |-> response # Failure]

\* One ModelAnswer per settled call, in completion order.
Stage1InCompletionOrder(models, results, completion) ==
    [i \in 1..Len(completion) |-> ModelAnswer(completion[i], results[completion[i]])]

\* One ModelAnswer per configured model, in configured order.
Stage1Collect(models, results, completion) ==
    [i \in 1..Len(models) |-> ModelAnswer(models[i], results[models[i]])]

(***************************************************************************)
(* Stage 2 (spec-modelled, spec.md 4.3): labels, ranking submissions and   *)
(* the aggregate ranking.                                                  *)
(***************************************************************************)
Labels == <<"A", "B", "C", "D">>
LabelsOf(n) == SubSeq(Labels, 1, n)

label_to_model(models) ==
    [l \in Range(LabelsOf(Len(models))) |->
        models[CHOOSE i \in 1..Len(models) : Labels[i] = l]]

\* A submission is valid when it is a permutation of the presented labels.
IsValidRanking(ranking, n) ==
    /\ Len(ranking) = n
    /\ Range(ranking) = Range(LabelsOf(n))

\* The ranking a Gateway call of Stage 2 comes back with when it succeeds:
\* the presented labels, last first.
Reverse(s) == [i \in 1..Len(s) |-> s[Len(s) + 1 - i]]
RankingResponses(n) == {Reverse(LabelsOf(n))}

Stage2Collect(models, results) ==
    [i \in 1..Len(models) |->
        [model |-> models[i],
         ranking |-> IF results[models[i]] = Failure THEN <<>>
                     ELSE Content(results[models[i]])]]

\* Points by position for whatever labels the submission holds, valid or not.
PointsOfUnvalidated(ranking, label, n) ==
    IF \E p \in DOMAIN ranking : ranking[p] = label
    THEN n - ((CHOOSE p \in DOMAIN ranking :
                  /\ ranking[p] = label
                  /\ \A q \in DOMAIN ranking : ranking[q] = label => p <= q) - 1)
    ELSE 0

\* Points counted from totalLabels - 1 down to 0.
PointsOfOneLess(ranking, label, n) ==
    IF IsValidRanking(ranking, n)
    THEN n - (CHOOSE p \in 1..n : ranking[p] = label)
    ELSE 0

\* points = totalLabels - position, position 0 being the best
PointsOf(ranking, label, n) ==
    IF IsValidRanking(ranking, n)
    THEN n - ((CHOOSE p \in 1..n : ranking[p] = label) - 1)
    ELSE 0

\* The points of the last submission only, not the sum.
ScoreOfLastOnly(s2, label, n) ==
    IF s2 = <<>> THEN 0 ELSE PointsOf(Last(s2).ranking, label, n)

RECURSIVE ScoreOf(_, _, _)
ScoreOf(s2, label, n) ==
    IF s2 = <<>>
    THEN 0
    ELSE ScoreOf(SubSeq(s2, 1, Len(s2) - 1), label, n)
             + PointsOf(Last(s2).ranking, label, n)

\* The total score of every label, by Stage 1 position.
Scores(s2, n) == [i \in 1..n |-> ScoreOf(s2, Labels[i], n)]

\* Later position first when the scores are equal.
BeforeLaterFirst(score, i, j) ==
    score[i] > score[j] \/ (score[i] = score[j] /\ i > j)

\* Score descending, ties by Stage 1 presentation order.
Before(score, i, j) ==
    score[i] > score[j] \/ (score[i] = score[j] /\ i < j)

\* The place of every model in the sorted list: one more than the number of
\* models before it.
Places(score) ==
    [i \in DOMAIN score |->
        1 + Cardinality({j \in DOMAIN score : Before(score, j, i)})]

Ranked(models, score, place) ==
    [k \in DOMAIN score |->
        [model |-> models[CHOOSE i \in DOMAIN score : place[i] = k],
         score |-> score[CHOOSE i \in DOMAIN score : place[i] = k]]]

\* Only the models that received points are listed.
HasPoints(entry) == entry.score > 0
AggregateOfRankedOnly(s2, models) ==
    SelectSeq(CHOOSE ranked \in
                  UNION {{Ranked(models, score, place) : place \in {Places(score)}} :
                         score \in {Scores(s2, Len(models))}} : TRUE,
              HasPoints)

\* The scores are summed, then the models sorted (score and place are bound
\* with \in so that each is computed once).
calculate_aggregate_rankings(s2, models) ==
    CHOOSE ranked \in
        UNION {{Ranked(models, score, place) : place \in {Places(score)}} :
               score \in {Scores(s2, Len(models))}} : TRUE

(***************************************************************************)
(* The streaming endpoint (main.py: send_message_stream).                  *)
(***************************************************************************)
Emit(type) == events' = Append(events, type)

\* The error event is yielded and the generator goes on.
HandleExceptionAndGoOn ==
    /\ Emit("error")
    /\ UNCHANGED <<pc, outcome>>

\* The exception ends the generator without an event.
HandleExceptionNoEvent ==
    /\ UNCHANGED events
    /\ outcome' = "error"
    /\ pc' = "done"

\* generate(): except Exception as e: yield the error event; the generator
\* ends.
HandleException ==
    /\ Emit("error")
    /\ outcome' = "error"
    /\ pc' = "done"

\* Either branch of the mode test taken for both modes.
StartEventOfCouncil(m) == "stage1_start"
StartEventOfChairman(m) == "chairman_start"

\* generate(): the first event of the routed path.

StartEvent(m) == IF m = "chairman" THEN "chairman_start" ELSE "stage1_start"

\* The Gateway calls the routed path issues first.
FirstCalls(m) == IF m = "chairman" THEN {CHAIRMAN_MODEL} ELSE Range(council)

\* The endpoint's validation: get_conversation, 404 when it is None;
\* otherwise the StreamingResponse over generate() is returned.
Submit(id, requested) ==
    /\ pc \in {"idle", "done"}
    /\ turns < MaxTurns
    /\ turns' = turns + 1
    /\ request' = [conversation_id |-> id, content |-> Query, mode |-> requested]
    /\ storedAtSubmit' = stored
    /\ events' = <<>>
    /\ cancelRequested' = FALSE
    /\ eventsAtCancel' = <<>>
    /\ is_first_message' = FALSE
    /\ history' = <<>>
    /\ mode' = "none"
    /\ pending' = {}
    /\ settled' = Empty
    /\ order' = <<>>
    /\ stage1' = NoResult
    /\ stage2' = NoResult
    /\ stage3' = NoResult
    /\ metadata' = NoResult
    /\ result' = NoResult
    /\ stage3_input' = NoResult
    /\ IF id = ConvId
       THEN /\ conversation' = stored
            /\ httpStatus' = 200
            /\ outcome' = "none"
            /\ pc' = "generate"
       ELSE /\ conversation' = <<>>
            /\ httpStatus' = 404
            /\ outcome' = "error"
            /\ pc' = "done"
    /\ UNCHANGED <<frontend, council, stored, titled>>

\* generate() up to its first yield: history, is_first_message, mode,
\* add_user_message, then chairman_start or stage1_start.  writeOk = FALSE
\* is add_user_message raising.
GenerateStart(writeOk) ==
    /\ pc = "generate"
    /\ LET first == Len(conversation) = 0
           routed == RouteMode(first, request.mode)
       IN /\ history' = build_conversation_history(conversation)
          /\ is_first_message' = first
          /\ mode' = routed
          /\ IF writeOk
             THEN /\ stored' = Append(stored, UserMessage(request.content))
                  /\ Emit(StartEvent(routed))
                  /\ pending' = FirstCalls(routed)
                  /\ pc' = IF routed = "chairman" THEN "chairman_call" ELSE "stage1_call"
                  /\ UNCHANGED outcome
             ELSE /\ HandleException
                  /\ UNCHANGED <<stored, pending>>
    /\ UNCHANGED <<frontend, council, titled, request, conversation, httpStatus,
                   cancelRequested, settled, order, stageVars, storedAtSubmit, eventsAtCancel, turns>>

\* What a Gateway call of the current position can return (spec.md 4.1:
\* text or a typed failure, never an exception).
Responses ==
    IF pc = "stage1_call" THEN {Ok("answer"), Failure}
    ELSE IF pc = "stage2_call"
         THEN {Ok(r) : r \in RankingResponses(Len(council))} \cup {Failure}
         ELSE {Ok("response"), Failure}

\* One Gateway call in flight settles.
GatewaySettle(m, response) ==
    /\ m \in pending
    /\ response \in Responses
    /\ pending' = pending \ {m}
    /\ settled' = settled @@ (m :> response)
    /\ order' = Append(order, m)
    /\ UNCHANGED <<frontend, council, stored, titled, pc, turnLocals, events, outcome,
                   httpStatus, cancelRequested, stageVars, storedAtSubmit, eventsAtCancel, turns>>

\* A checkpoint that does not look at the request.
CheckpointIgnored == TRUE

\* spec-modelled: a checkpoint lets the turn go on only when no
\* cancellation was requested.
Checkpoint == ~cancelRequested

\* generate(), chairman path, after chat_with_chairman returned:
\* add_chairman_message, then chairman_complete.  writeOk = FALSE is
\* add_chairman_message raising.
ChairmanReturn(writeOk) ==
    /\ pc = "chairman_call"
    /\ pending = {}
    /\ Checkpoint
    /\ LET r == ChairmanResult(settled[CHAIRMAN_MODEL])
       IN /\ result' = r
          /\ IF writeOk
             THEN /\ stored' = Append(stored, ChairmanMessage(r))
                  /\ Emit("chairman_complete")
                  /\ pc' = "chairman_done"
                  /\ UNCHANGED outcome
             ELSE /\ HandleException
                  /\ UNCHANGED stored
    /\ UNCHANGED <<frontend, council, titled, turnLocals, httpStatus, cancelRequested,
                   fanout, stage1, stage2, stage3, metadata, stage3_input,
                   storedAtSubmit, eventsAtCancel, turns>>

\* generate(), chairman path: the complete event.
ChairmanComplete ==
    /\ pc = "chairman_done"
    /\ Emit("complete")
    /\ outcome' = "complete"
    /\ pc' = "done"
    /\ UNCHANGED <<frontend, council, stored, titled, turnLocals, httpStatus,
                   cancelRequested, fanout, stageVars, storedAtSubmit, eventsAtCancel, turns>>

(***************************************************************************)
(* The council path of generate().  The listing shows stage1_start and the *)
(* Stage 1 call and elides the rest; the steps from stage1_complete on are *)
(* spec-modelled (spec.md 4.8), with the storage call of the non-streaming *)
(* endpoint, add_assistant_message(conversation_id, stage1, stage2,        *)
(* stage3).                                                                *)
(***************************************************************************)
Stage1Complete ==
    /\ pc = "stage1_call"
    /\ pending = {}
    /\ Checkpoint
    /\ stage1' = Stage1Collect(council, settled, order)
    /\ Emit("stage1_complete")
    /\ pc' = "stage2_start"
    /\ UNCHANGED <<frontend, council, stored, titled, turnLocals, outcome, httpStatus,
                   cancelRequested, fanout, stage2, stage3, metadata, result, stage3_input,
                   storedAtSubmit, eventsAtCancel, turns>>

Stage2Start ==
    /\ pc = "stage2_start"
    /\ Checkpoint
    /\ Emit("stage2_start")
    /\ pending' = Range(council)
    /\ settled' = Empty
    /\ order' = <<>>
    /\ pc' = "stage2_call"
    /\ UNCHANGED <<frontend, council, stored, titled, turnLocals, outcome, httpStatus,
                   cancelRequested, stageVars, storedAtSubmit, eventsAtCancel, turns>>

Stage2Complete ==
    /\ pc = "stage2_call"
    /\ pending = {}
    /\ Checkpoint
    /\ \E s2 \in {Stage2Collect(council, settled)} :
          /\ stage2' = s2
          /\ metadata' = [label_to_model |-> label_to_model(council),
                          aggregate_rankings |-> calculate_aggregate_rankings(s2, council)]
    /\ Emit("stage2_complete")
    /\ pc' = "stage3_start"
    /\ UNCHANGED <<frontend, council, stored, titled, turnLocals, outcome, httpStatus,
                   cancelRequested, fanout, stage1, stage3, result, stage3_input,
                   storedAtSubmit, eventsAtCancel, turns>>

\* The aggregate ranking handed to the synthesis in place of the rankings.
Stage3InputOfAggregate(user_query, stage1_results, stage2_results, conversation_context) ==
    [user_query |-> user_query,
     stage1_results |-> stage1_results,
     aggregate_rankings |-> calculate_aggregate_rankings(stage2_results, council),
     conversation_context |-> conversation_context]

\* run_full_council: stage3_synthesize_final(user_query, stage1_results,
\* stage2_results, context_summary)
Stage3Input(user_query, stage1_results, stage2_results, conversation_context) ==
    [user_query |-> user_query,
     stage1_results |-> stage1_results,
     stage2_results |-> stage2_results,
     conversation_context |-> conversation_context]

Stage3Start ==
    /\ pc = "stage3_start"
    /\ Checkpoint
    /\ Emit("stage3_start")
    /\ stage3_input' = Stage3Input(request.content, stage1, stage2,
                                   context_summary(history))
    /\ pending' = {CHAIRMAN_MODEL}
    /\ settled' = Empty
    /\ order' = <<>>
    /\ pc' = "stage3_call"
    /\ UNCHANGED <<frontend, council, stored, titled, turnLocals, outcome, httpStatus,
                   cancelRequested, stage1, stage2, stage3, metadata, result,
                   storedAtSubmit, eventsAtCancel, turns>>

Stage3Complete ==
    /\ pc = "stage3_call"
    /\ pending = {}
    /\ Checkpoint
    /\ stage3' = ChairmanResult(settled[CHAIRMAN_MODEL])
    /\ Emit("stage3_complete")
    /\ pc' = IF is_first_message THEN "title" ELSE "commit"
    /\ UNCHANGED <<frontend, council, stored, titled, turnLocals, outcome, httpStatus,
                   cancelRequested, fanout, stage1, stage2, metadata, result, stage3_input,
                   storedAtSubmit, eventsAtCancel, turns>>

\* First turn only: the title is generated and stored, then title_complete.
\* writeOk = FALSE is update_conversation_title raising.
TitleComplete(writeOk) ==
    /\ pc = "title"
    /\ Checkpoint
    /\ IF writeOk
       THEN /\ titled' = TRUE
            /\ Emit("title_complete")
            /\ pc' = "commit"
            /\ UNCHANGED outcome
       ELSE /\ HandleException
            /\ UNCHANGED titled
    /\ UNCHANGED <<frontend, council, stored, turnLocals, httpStatus, cancelRequested,
                   fanout, stageVars, storedAtSubmit, eventsAtCancel, turns>>

\* The turn's message is stored, then complete.  writeOk = FALSE is
\* add_assistant_message raising.
Commit(writeOk) ==
    /\ pc = "commit"
    /\ Checkpoint
    /\ IF writeOk
       THEN /\ stored' = Append(stored, CouncilMessage(stage1, stage2, stage3))
            /\ Emit("complete")
            /\ outcome' = "complete"
            /\ pc' = "done"
       ELSE /\ HandleException
            /\ UNCHANGED stored
    /\ UNCHANGED <<frontend, council, titled, turnLocals, httpStatus, cancelRequested,
                   fanout, stageVars, storedAtSubmit, eventsAtCancel, turns>>

(***************************************************************************)
(* Cancellation (spec-modelled, spec.md 4.8 and 5).  A request is taken    *)
(* while the turn still has a checkpoint ahead; the checkpoints are the    *)
(* stage boundaries, after the Gateway calls in flight have finished.      *)
(***************************************************************************)
Cancellable ==
    {"chairman_call", "stage1_call", "stage2_start", "stage2_call",
     "stage3_start", "stage3_call", "title", "commit"}

CancelRequest ==
    /\ pc \in Cancellable
    /\ ~cancelRequested
    /\ cancelRequested' = TRUE
    /\ eventsAtCancel' = events
    /\ UNCHANGED <<frontend, council, stored, titled, pc, turnLocals, events, outcome,
                   httpStatus, fanout, stageVars, storedAtSubmit, turns>>

\* The checkpoint observes the request: results in hand are discarded, a
\* CancelledMessage is stored, the stream ends with cancelled.
Cancelled ==
    /\ pc \in Cancellable
    /\ pending = {}
    /\ ~Checkpoint
    /\ stored' = Append(stored, CancelledMessage)
    /\ Emit("cancelled")
    /\ outcome' = "cancelled"
    /\ pc' = "done"
    /\ UNCHANGED <<frontend, council, titled, turnLocals, httpStatus, cancelRequested,
                   fanout, stageVars, storedAtSubmit, eventsAtCancel, turns>>

(***************************************************************************)
(* Specifications.                                                         *)
(***************************************************************************)
BackendRest ==
    /\ pc = "idle"
    /\ request = [conversation_id |-> ConvId, content |-> Query, mode |-> NoMode]
    /\ conversation = <<>>
    /\ is_first_message = FALSE
    /\ history = <<>>
    /\ mode = "none"
    /\ events = <<>>
    /\ outcome = "none"
    /\ httpStatus = 0
    /\ cancelRequested = FALSE
    /\ pending = {}
    /\ settled = Empty
    /\ order = <<>>
    /\ stage1 = NoResult
    /\ stage2 = NoResult
    /\ stage3 = NoResult
    /\ metadata = NoResult
    /\ result = NoResult
    /\ stage3_input = NoResult
    /\ storedAtSubmit = <<>>
    /\ eventsAtCancel = <<>>
    /\ turns = 0

InitRest == BackendRest /\ FrontendIdle

\* The backend with no turn submitted.
BackendIdle ==
    /\ council = <<ModelIds[1], ModelIds[2]>>
    /\ stored = <<>>
    /\ titled = FALSE
    /\ BackendRest

InitWith(c) ==
    /\ council = c
    /\ stored = <<>>
    /\ titled = FALSE
    /\ InitRest

Init == InitWith(<<ModelIds[1], ModelIds[2]>>)

Step ==
    \/ \E writeOk \in BOOLEAN : GenerateStart(writeOk)
    \/ \E m \in pending : \E response \in Responses : GatewaySettle(m, response)
    \/ \E writeOk \in BOOLEAN : ChairmanReturn(writeOk)
    \/ ChairmanComplete
    \/ Stage1Complete
    \/ Stage2Start
    \/ Stage2Complete
    \/ Stage3Start
    \/ Stage3Complete
    \/ \E writeOk \in BOOLEAN : TitleComplete(writeOk)
    \/ \E writeOk \in BOOLEAN : Commit(writeOk)
    \/ Cancelled

Next ==
    \/ \E id \in {ConvId, MissingId} : \E requested \in RequestModes : Submit(id, requested)
    \/ CancelRequest
    \/ Step

Spec == Init /\ [][Next]_vars

\* A conversation that already holds one completed council turn.
PriorConversation(c) ==
    LET answers == [m \in Range(c) |-> Ok("answer")]
        rankings == [m \in Range(c) |-> Ok(Reverse(LabelsOf(Len(c))))]
    IN <<UserMessage(Query),
         CouncilMessage(Stage1Collect(c, answers, c),
                        Stage2Collect(c, rankings),
                        ChairmanResult(Ok("response")))>>

\* The turns whose ending is followed: they start on a new conversation or
\* on one with a completed council turn, so that both modes are taken.
InitFair ==
    \E prior \in BOOLEAN :
        /\ council = <<ModelIds[1], ModelIds[2]>>
        /\ stored = IF prior THEN PriorConversation(council) ELSE <<>>
        /\ titled = prior
        /\ InitRest

NextFair ==
    \/ /\ turns < MaxFairTurns
       /\ \E id \in {ConvId, MissingId} : \E requested \in RequestModes :
              Submit(id, requested)
    \/ CancelRequest
    \/ Step

\* The event loop runs every step of the generator that is ready, and every
\* Gateway call returns (spec.md 4.1).
FairSpec == InitFair /\ [][NextFair]_vars /\ WF_vars(Step)

(***************************************************************************)
(* Stage 1 on its own: the first turn of a conversation has been           *)
(* submitted, for every configured council of up to MaxModels models in    *)
(* every order; the turn runs up to stage1_complete.                       *)
(***************************************************************************)
CouncilConfigs ==
    UNION {InjectiveSeqs(Range(SubSeq(ModelIds, 1, MaxModels)), n) : n \in 1..MaxModels}

InitStage1 ==
    /\ council \in CouncilConfigs
    /\ stored = <<>>
    /\ titled = FALSE
    /\ pc = "generate"
    /\ request = [conversation_id |-> ConvId, content |-> Query, mode |-> NoMode]
    /\ conversation = <<>>
    /\ is_first_message = FALSE
    /\ history = <<>>
    /\ mode = "none"
    /\ events = <<>>
    /\ outcome = "none"
    /\ httpStatus = 200
    /\ cancelRequested = FALSE
    /\ pending = {}
    /\ settled = Empty
    /\ order = <<>>
    /\ stage1 = NoResult
    /\ stage2 = NoResult
    /\ stage3 = NoResult
    /\ metadata = NoResult
    /\ result = NoResult
    /\ stage3_input = NoResult
    /\ FrontendIdle
    /\ storedAtSubmit = <<>>
    /\ eventsAtCancel = <<>>
    /\ turns = 1

NextStage1 ==
    \/ \E writeOk \in BOOLEAN : GenerateStart(writeOk)
    \/ \E m \in pending : \E response \in Responses : GatewaySettle(m, response)
    \/ Stage1Complete

SpecStage1 == InitStage1 /\ [][NextStage1]_vars

(***************************************************************************)
(* Stage 2 on its own: the ranking calls of a council turn have settled,   *)
(* for every council of 2..MaxModels models and every combination of       *)
(* submissions: each permutation of the presented labels, a submission     *)
(* with a label missing, one with a label twice, one with an unknown       *)
(* label, and a failed call.  The turn runs up to stage2_complete.         *)
(***************************************************************************)
Malformed(n) ==
    {SubSeq(LabelsOf(n), 1, n - 1),
     [LabelsOf(n) EXCEPT ![n] = Labels[1]],
     [LabelsOf(n) EXCEPT ![n] = "X"]}

\* The valid submissions: every permutation of the presented labels.
LabelPermutations(n) == {Ok(r) : r \in InjectiveSeqs(Range(LabelsOf(n)), n)}

Submissions(n) ==
    LabelPermutations(n) \cup {Ok(r) : r \in Malformed(n)} \cup {Failure}

\* The ranking calls have settled, with valid submissions only or with any.
Stage2Settled(validOnly) ==
    /\ \E n \in 2..MaxModels : council = SubSeq(ModelIds, 1, n)
    /\ stored = <<UserMessage(Query)>>
    /\ titled = FALSE
    /\ pc = "stage2_call"
    /\ request = [conversation_id |-> ConvId, content |-> Query, mode |-> NoMode]
    /\ conversation = <<>>
    /\ is_first_message = TRUE
    /\ history = <<>>
    /\ mode = "council"
    /\ events = <<"stage1_start", "stage1_complete", "stage2_start">>
    /\ outcome = "none"
    /\ httpStatus = 200
    /\ cancelRequested = FALSE
    /\ pending = {}
    /\ order = council
    /\ stage1 = Stage1Collect(council, [m \in Range(council) |-> Ok("answer")], council)
    /\ stage2 = NoResult
    /\ stage3 = NoResult
    /\ metadata = NoResult
    /\ result = NoResult
    /\ stage3_input = NoResult
    /\ FrontendIdle
    /\ storedAtSubmit = <<>>
    /\ eventsAtCancel = <<>>
    /\ turns = 1
    /\ settled \in [Range(council) ->
                        IF validOnly THEN LabelPermutations(Len(council))
                                     ELSE Submissions(Len(council))]

InitStage2 == Stage2Settled(FALSE)

NextStage2 == Stage2Complete

SpecStage2 == InitStage2 /\ [][NextStage2]_vars

\* The same with valid submissions only.
InitRanking == Stage2Settled(TRUE)

SpecRanking == InitRanking /\ [][NextStage2]_vars

(***************************************************************************)
(* The History Builder on its own: a turn has been submitted on a stored   *)
(* conversation of up to MaxStoredTurns turns, each one a user message     *)
(* followed by the council, chairman or cancelled message of its outcome,  *)
(* or by none (the turn ended in error); the first turn of a conversation  *)
(* is never a chairman turn.  generate() runs up to its first yield.       *)
(***************************************************************************)
StoredCouncilMessage(c, response) ==
    CouncilMessage(Stage1Collect(c, [m \in Range(c) |-> Ok("answer")], c),
                   Stage2Collect(c, [m \in Range(c) |-> Ok(Reverse(LabelsOf(Len(c))))]),
                   ChairmanResult(response))

FirstTurns(c) ==
    {<<UserMessage(Query)>>,
     <<UserMessage(Query), CancelledMessage>>}
        \cup {<<UserMessage(Query), StoredCouncilMessage(c, r)>> :
                 r \in {Ok("response"), Failure}}

LaterTurns(c) ==
    FirstTurns(c)
        \cup {<<UserMessage(Query), ChairmanMessage(ChairmanResult(r))>> :
                 r \in {Ok("reply"), Failure}}

RECURSIVE StoredConversations(_, _)
StoredConversations(c, n) ==
    IF n = 0
    THEN {<<>>}
    ELSE IF n = 1
         THEN {<<>>} \cup FirstTurns(c)
         ELSE StoredConversations(c, n - 1)
                  \cup {conv \o turn : conv \in StoredConversations(c, n - 1) \ {<<>>},
                                       turn \in LaterTurns(c)}

InitHistory ==
    /\ council = <<ModelIds[1], ModelIds[2]>>
    /\ stored \in StoredConversations(council, MaxStoredTurns)
    /\ titled = (stored # <<>>)
    /\ pc = "generate"
    /\ \E requested \in RequestModes :
          request = [conversation_id |-> ConvId, content |-> Query, mode |-> requested]
    /\ conversation = stored
    /\ is_first_message = FALSE
    /\ history = <<>>
    /\ mode = "none"
    /\ events = <<>>
    /\ outcome = "none"
    /\ httpStatus = 200
    /\ cancelRequested = FALSE
    /\ pending = {}
    /\ settled = Empty
    /\ order = <<>>
    /\ stage1 = NoResult
    /\ stage2 = NoResult
    /\ stage3 = NoResult
    /\ metadata = NoResult
    /\ result = NoResult
    /\ stage3_input = NoResult
    /\ FrontendIdle
    /\ storedAtSubmit = stored
    /\ eventsAtCancel = <<>>
    /\ turns = 1

NextHistory == \E writeOk \in BOOLEAN : GenerateStart(writeOk)

SpecHistory == InitHistory /\ [][NextHistory]_vars

(***************************************************************************)
(* The history summary on its own: a later council turn stands before its  *)
(* Stage 3 call, on a stored conversation of up to MaxSummaryTurns turns,   *)
(* each a user message (the query, or a text one character over the cap)    *)
(* alone or followed by a council message whose stage3 text is exactly as   *)
(* long as the cap or longer.  The turn runs up to stage3_start.            *)
(***************************************************************************)
RECURSIVE Repeat(_, _)
Repeat(text, n) == IF n = 0 THEN "" ELSE Repeat(text, n - 1) \o text

\* A text of n characters.
TextOfLength(n) == Repeat("0123456789", n \div 10) \o SubSeq("abcdefghi", 1, n % 10)

SummaryTurns(c) ==
    LET users == {UserMessage(Query), UserMessage(TextOfLength(SummaryCap + 1))}
        answers == {StoredCouncilMessage(c, Ok(TextOfLength(SummaryCap))),
                    StoredCouncilMessage(c, Ok(TextOfLength(SummaryCap + 2)))}
    IN {<<u>> : u \in users} \cup {<<u, a>> : u \in users, a \in answers}

RECURSIVE SummaryConversations(_, _)
SummaryConversations(c, n) ==
    IF n = 0
    THEN {<<>>}
    ELSE SummaryConversations(c, n - 1)
             \cup {conv \o turn : conv \in SummaryConversations(c, n - 1),
                                  turn \in SummaryTurns(c)}

InitSummary ==
    /\ council = <<ModelIds[1], ModelIds[2]>>
    /\ conversation \in SummaryConversations(council, MaxSummaryTurns)
    /\ stored = Append(conversation, UserMessage(Query))
    /\ titled = (conversation # <<>>)
    /\ pc = "stage3_start"
    /\ request = [conversation_id |-> ConvId, content |-> Query, mode |-> "council"]
    /\ is_first_message = (conversation = <<>>)
    /\ history = build_conversation_history(conversation)
    /\ mode = "council"
    /\ events = <<"stage1_start", "stage1_complete", "stage2_start", "stage2_complete">>
    /\ outcome = "none"
    /\ httpStatus = 200
    /\ cancelRequested = FALSE
    /\ pending = {}
    /\ settled = [m \in Range(council) |-> Ok(Reverse(LabelsOf(Len(council))))]
    /\ order = council
    /\ stage1 = Stage1Collect(council, [m \in Range(council) |-> Ok("answer")], council)
    /\ stage2 = Stage2Collect(council, settled)
    /\ stage3 = NoResult
    /\ metadata = [label_to_model |-> label_to_model(council),
                   aggregate_rankings |-> calculate_aggregate_rankings(stage2, council)]
    /\ result = NoResult
    /\ stage3_input = NoResult
    /\ FrontendIdle
    /\ storedAtSubmit = conversation
    /\ eventsAtCancel = <<>>
    /\ turns = 1

NextSummary == Stage3Start

SpecSummary == InitSummary /\ [][NextSummary]_vars

(***************************************************************************)
(* Properties.                                                             *)
(***************************************************************************)
StageEvents ==
    {"stage1_start", "stage1_complete", "stage2_start", "stage2_complete",
     "stage3_start", "stage3_complete"}
TerminalEvents == {"complete", "error", "cancelled"}
CouncilOrder ==
    <<"stage1_start", "stage1_complete", "stage2_start", "stage2_complete",
      "stage3_start", "stage3_complete", "title_complete", "complete">>
CouncilOrderNoTitle ==
    <<"stage1_start", "stage1_complete", "stage2_start", "stage2_complete",
      "stage3_start", "stage3_complete", "complete">>
ChairmanOrder == <<"chairman_start", "chairman_complete", "complete">>

IsAbort(e) == e \in {"error", "cancelled"}
\* The events of the turn without a closing error or cancelled.
Progress(evs) ==
    IF evs # <<>> /\ IsAbort(Last(evs)) THEN SubSeq(evs, 1, Len(evs) - 1) ELSE evs
Count(evs, S) == Cardinality({i \in DOMAIN evs : evs[i] \in S})
\* The messages the turn in flight has appended to storage.
TurnMessages == SubSeq(stored, Len(storedAtSubmit) + 1, Len(stored))
ResultFields == {"stage1", "stage2", "stage3", "chairman_response"}

\* C1: the routed mode of every turn is council when the conversation had no
\* stored message at submission, whatever the caller requested; otherwise it
\* is the requested mode when one was given, and chairman when none was.
C1_ModeRouter ==
    mode # "none" =>
        mode = IF Len(storedAtSubmit) = 0
               THEN "council"
               ELSE IF request.mode \in {"chairman", "council"}
                    THEN request.mode
                    ELSE "chairman"

\* A first turn that asked for chairman was routed to council.
C1_Witness ==
    /\ Len(storedAtSubmit) = 0
    /\ request.mode = "chairman"
    /\ mode = "council"
    /\ "stage1_start" \in Range(events)

\* C2: on the council path the events yielded so far, up to a closing error
\* or cancelled, are an initial part of stage1_start, stage1_complete,
\* stage2_start, stage2_complete, stage3_start, stage3_complete,
\* title_complete (first turn only), complete: each event after its
\* predecessor, none twice.
C2_CouncilOrder ==
    mode = "council" =>
        /\ \/ IsPrefix(Progress(events), CouncilOrder)
           \/ IsPrefix(Progress(events), CouncilOrderNoTitle)
        /\ "title_complete" \in Range(events) => Len(storedAtSubmit) = 0

\* A council turn ran through all eight events.
C2_Witness ==
    /\ mode = "council"
    /\ events = CouncilOrder

\* C3: on the chairman path the events yielded so far, up to a closing error
\* or cancelled, are an initial part of chairman_start, chairman_complete,
\* complete; a turn that ended complete yielded exactly these three; no
\* stage event is ever yielded.
C3_ChairmanOrder ==
    mode = "chairman" =>
        /\ IsPrefix(Progress(events), ChairmanOrder)
        /\ outcome = "complete" => events = ChairmanOrder
        /\ Range(events) \cap StageEvents = {}

\* A chairman turn ended complete.
C3_Witness ==
    /\ mode = "chairman"
    /\ outcome = "complete"
    /\ events = ChairmanOrder

\* C4: an error event ends the turn: it is the last event, the turn is in
\* the terminal error state as soon as it is yielded, and no event of the
\* turn follows it.
C4_ErrorIsTerminal ==
    /\ [](\A i \in DOMAIN events :
            events[i] = "error" => i = Len(events) /\ outcome = "error" /\ pc = "done")
    /\ [][("error" \in Range(events)) => (events' = events \/ turns' # turns)]_vars

\* A turn failed after it had yielded stage events.
C4_Witness ==
    /\ Len(events) > 2
    /\ Last(events) = "error"
    /\ outcome = "error"

InFlight == pc \notin {"idle", "done"}
\* C7: every submitted turn ends, in exactly one of complete, error and
\* cancelled: a streamed turn closes with exactly one terminal event, the
\* one of its outcome, and no turn stays in flight for ever.
C7_DefiniteTerminalState ==
    /\ [](/\ pc = "done" <=> outcome \in TerminalEvents
          /\ Count(events, TerminalEvents) <= 1
          /\ pc = "done" /\ httpStatus = 200 =>
                Count(events, TerminalEvents) = 1 /\ Last(events) = outcome)
    /\ (InFlight ~> (pc = "done"))

\* A council turn completed although a Stage 1 call, a Stage 2 call and the
\* chairman call failed.
C7_Witness ==
    /\ outcome = "complete"
    /\ mode = "council"
    /\ \E i \in DOMAIN stage1 : ~stage1[i].success
    /\ \E i \in DOMAIN stage2 : stage2[i].ranking = <<>>
    /\ stage3.response = FailedText

\* C8 as stated: a stored message with any of stage1, stage2, stage3 and
\* aggregate has all four.
C8_AllFourFields ==
    \A i \in DOMAIN stored :
        DOMAIN stored[i] \cap {"stage1", "stage2", "stage3", "aggregate"} # {} =>
            {"stage1", "stage2", "stage3", "aggregate"} \subseteq DOMAIN stored[i]

\* C8 amended: a stored message with any of stage1, stage2 and stage3 has all
\* three, each populated; the aggregate ranking is no field of a stored
\* message.
C8_AllThreeFields ==
    \A i \in DOMAIN stored :
        /\ DOMAIN stored[i] \cap {"stage1", "stage2", "stage3"} # {} =>
              /\ {"stage1", "stage2", "stage3"} \subseteq DOMAIN stored[i]
              /\ stored[i].stage1 # NoResult
              /\ stored[i].stage2 # NoResult
              /\ stored[i].stage3 # NoResult
        /\ "aggregate" \notin DOMAIN stored[i]

\* A council message is stored, while the turn's aggregate ranking exists.
C8_Witness ==
    /\ outcome = "complete"
    /\ mode = "council"
    /\ Has(Last(stored), "stage1")
    /\ metadata # NoResult

\* C9 as stated: a turn that ended complete or cancelled has appended its one
\* Message (after the user's query); a turn that ended in error or with
\* conversation-not-found has left the stored message list as it was.
C9_AppendsByOutcome ==
    pc = "done" =>
        /\ outcome \in {"complete", "cancelled"} =>
              /\ Len(TurnMessages) = 2
              /\ TurnMessages[1] = UserMessage(request.content)
        /\ outcome = "error" => stored = storedAtSubmit

\* C10: Stage 1 returns one ModelAnswer per configured council model, in the
\* configured order.
C10_Stage1Order ==
    stage1 # NoResult =>
        /\ Len(stage1) = Len(council)
        /\ \A i \in DOMAIN council : stage1[i].model = council[i]

\* Stage 1 returned after its calls completed in another order than the
\* configured one.
C10_Witness ==
    /\ stage1 # NoResult
    /\ Len(council) = MaxModels
    /\ order # council
    /\ \E i \in DOMAIN stage1 : ~stage1[i].success

\* C11: Stage 1 returns only when the Gateway call of every council model has
\* settled; a failed call gives a ModelAnswer with success = FALSE and the
\* placeholder text, a successful one its text, and a call that fails leaves
\* the other calls in flight and the stage running.
C11_Stage1WaitsForAll ==
    /\ [](stage1 # NoResult =>
            /\ pending = {}
            /\ DOMAIN settled = Range(council)
            /\ Len(stage1) = Len(council)
            /\ \A i \in DOMAIN stage1 :
                  LET r == settled[council[i]]
                  IN IF r = Failure
                     THEN ~stage1[i].success /\ stage1[i].response = PlaceholderText
                     ELSE stage1[i].success /\ stage1[i].response = Content(r))
    /\ [][/\ stage1 = NoResult /\ stage1' # NoResult =>
                pending = {} /\ Len(order) = Len(council)
           /\ \A m \in pending :
                m \notin pending' /\ settled'[m] = Failure =>
                    /\ pending' = pending \ {m}
                    /\ pc' = pc
                    /\ outcome' = outcome]_vars

\* Stage 1 returned after the first call to settle had failed and another
\* had succeeded.
C11_Witness ==
    /\ stage1 # NoResult
    /\ Len(council) = MaxModels
    /\ settled[order[1]] = Failure
    /\ \E i \in DOMAIN stage1 : stage1[i].success

\* The aggregate ranking of the turn and the submissions behind it.
Aggregate == metadata.aggregate_rankings
IndexOf(m) == CHOOSE i \in DOMAIN council : council[i] = m
ValidSubmissions ==
    {j \in DOMAIN stage2 : IsValidRanking(stage2[j].ranking, Len(council))}
Position(ranking, label) == CHOOSE p \in DOMAIN ranking : ranking[p] = label
\* The points a label is due: for every valid submission, one for each place
\* from the label's own down to the last.
PointsDue(i) ==
    Cardinality({jq \in ValidSubmissions \X (1..Len(council)) :
                    jq[2] >= Position(stage2[jq[1]].ranking, Labels[i])})
RECURSIVE SumOfScores(_)
SumOfScores(agg) ==
    IF agg = <<>> THEN 0 ELSE agg[1].score + SumOfScores(Tail(agg))
Stage2Done == metadata # NoResult

\* C12: a submission that is not a permutation of the presented labels adds
\* no points to any model: the scores add up to n(n+1)/2 points for each
\* valid submission and nothing more; and Stage 2 completes without an
\* error, the turn going on to Stage 3.
C12_InvalidSubmissionDropped ==
    Stage2Done =>
        /\ 2 * SumOfScores(Aggregate) =
              Cardinality(ValidSubmissions) * Len(council) * (Len(council) + 1)
        /\ pc = "stage3_start"
        /\ outcome = "none"
        /\ Last(events) = "stage2_complete"

\* Stage 2 completed over a submission with a repeated label, one with an
\* unknown label and a valid one.
C12_Witness ==
    /\ Stage2Done
    /\ Len(council) = MaxModels
    /\ Cardinality(ValidSubmissions) = 1
    /\ \E j \in DOMAIN stage2 : "X" \in Range(stage2[j].ranking)
    /\ \E j \in DOMAIN stage2 :
          /\ Len(stage2[j].ranking) = Len(council)
          /\ Range(stage2[j].ranking) \subseteq Range(Labels)
          /\ j \notin ValidSubmissions

\* C13: the aggregate ranking lists every council model once, with the sum
\* over the valid submissions of (totalLabels - position), position 0 being
\* the best, as its score, in descending order of score.
C13_ScoreIsSumOfPoints ==
    Stage2Done =>
        /\ Len(Aggregate) = Len(council)
        /\ {Aggregate[k].model : k \in DOMAIN Aggregate} = Range(council)
        /\ \A k \in DOMAIN Aggregate :
              Aggregate[k].score = PointsDue(IndexOf(Aggregate[k].model))
        /\ \A k \in 1..(Len(Aggregate) - 1) :
              Aggregate[k].score >= Aggregate[k + 1].score

\* Every submission valid, and the best-ranked model is not the first of the
\* council.
C13_Witness ==
    /\ Stage2Done
    /\ Len(council) = MaxModels
    /\ ValidSubmissions = DOMAIN stage2
    /\ Aggregate[1].model # council[1]
    /\ Aggregate[1].score > Aggregate[2].score

\* C14: of two models with equal score the one earlier in Stage 1
\* presentation order stands higher in the aggregate ranking.
C14_TieBreak ==
    Stage2Done =>
        \A a, b \in DOMAIN Aggregate :
            a < b /\ Aggregate[a].score = Aggregate[b].score =>
                IndexOf(Aggregate[a].model) < IndexOf(Aggregate[b].model)

\* Two models tied on points they were given, behind a model with more.
C14_Witness ==
    /\ Stage2Done
    /\ Len(council) = MaxModels
    /\ \E a, b \in DOMAIN Aggregate :
          /\ 1 < a /\ a < b
          /\ Aggregate[a].score = Aggregate[b].score
          /\ Aggregate[a].score > 0

\* C15: when no submission is valid the aggregate ranking is the Stage 1
\* presentation order with every score 0, and Stage 2 completes without an
\* error.
C15_AllInvalidDegrades ==
    Stage2Done /\ ValidSubmissions = {} =>
        /\ Aggregate = [k \in DOMAIN council |-> [model |-> council[k], score |-> 0]]
        /\ pc = "stage3_start"
        /\ outcome = "none"

\* No submission valid: a failed call and malformed submissions.
C15_Witness ==
    /\ Stage2Done
    /\ Len(council) = MaxModels
    /\ ValidSubmissions = {}
    /\ \E j \in DOMAIN stage2 : stage2[j].ranking = <<>>
    /\ \E j \in DOMAIN stage2 : Len(stage2[j].ranking) = Len(council)

\* The submissions [A,B,C], [B,A,C], [A,C,B] of a council of three.
Scenario16 ==
    /\ Stage2Done
    /\ council = <<ModelIds[1], ModelIds[2], ModelIds[3]>>
    /\ stage2[1].ranking = <<"A", "B", "C">>
    /\ stage2[2].ranking = <<"B", "A", "C">>
    /\ stage2[3].ranking = <<"A", "C", "B">>

Stage3Called == stage3_input # NoResult

\* C17 as stated: when the chairman call of Stage 3 is issued the aggregate
\* ranking has been computed and is part of the call's input, with the query
\* and all Stage 1 answers.
C17_AggregateIsStage3Input ==
    Stage3Called =>
        /\ Stage2Done
        /\ stage3_input.user_query = request.content
        /\ stage3_input.stage1_results = stage1
        /\ Has(stage3_input, "aggregate_rankings")
        /\ stage3_input.aggregate_rankings = Aggregate

\* C17: the input of the chairman call of Stage 3 is the query, the Stage 1
\* answers of every council model, the Stage 2 results of every council
\* model and the summary of the history (none on a first turn), and nothing
\* else; the aggregate ranking is not in it, it is derived from the same
\* Stage 2 results.
C17_Stage3Input ==
    Stage3Called =>
        /\ DOMAIN stage3_input =
              {"user_query", "stage1_results", "stage2_results", "conversation_context"}
        /\ stage3_input.user_query = request.content
        /\ stage3_input.stage1_results = stage1
        /\ Len(stage3_input.stage1_results) = Len(council)
        /\ stage3_input.stage2_results = stage2
        /\ Len(stage3_input.stage2_results) = Len(council)
        /\ (stage3_input.conversation_context = NoContext) = (storedAtSubmit = <<>>)
        /\ Aggregate = calculate_aggregate_rankings(stage3_input.stage2_results, council)

\* The chairman call of Stage 3 is in flight on a later council turn, with a
\* summary of the history in its input.
C17_Witness ==
    /\ Stage3Called
    /\ pc = "stage3_call"
    /\ pending = {CHAIRMAN_MODEL}
    /\ stage3_input.conversation_context # NoContext
    /\ \E i \in DOMAIN stage2 : stage2[i].ranking = <<>>

\* The stored messages the History Builder has an entry for, and how many of
\* them there are among the first i.
Contributes(msg) ==
    msg.role = "user" \/ Has(msg, "stage3") \/ Has(msg, "chairman_response")
EntriesUpTo(i) ==
    Cardinality({j \in 1..i : Contributes(conversation[j])})
HistoryBuilt == pc # "generate" /\ httpStatus = 200

\* C18: the history has one entry for each user, council and chairman
\* message of the conversation, in the order of the messages: a user entry
\* with the content of a user message, an assistant entry with the stage3
\* text of a council message (not one of its Stage 1 answers), an assistant
\* entry with the response text of a chairman message.
C18_HistoryBuilder ==
    HistoryBuilt =>
        /\ Len(history) = EntriesUpTo(Len(conversation))
        /\ \A i \in DOMAIN conversation :
              Contributes(conversation[i]) =>
                  IF conversation[i].role = "user"
                  THEN history[EntriesUpTo(i)] =
                           [role |-> "user", content |-> conversation[i].content]
                  ELSE IF Has(conversation[i], "stage3")
                       THEN /\ history[EntriesUpTo(i)] =
                                   [role |-> "assistant",
                                    content |-> conversation[i].stage3.response]
                            /\ \A k \in DOMAIN conversation[i].stage1 :
                                   history[EntriesUpTo(i)].content #
                                       conversation[i].stage1[k].response
                       ELSE history[EntriesUpTo(i)] =
                                [role |-> "assistant",
                                 content |-> conversation[i].chairman_response.response]

\* The history of a conversation with a council turn, a cancelled turn and a
\* chairman turn.
C18_Witness ==
    /\ HistoryBuilt
    /\ Len(conversation) = 2 * MaxStoredTurns
    /\ Has(conversation[2], "stage3")
    /\ \E i \in DOMAIN conversation : Has(conversation[i], "cancelled")
    /\ \E i \in DOMAIN conversation : Has(conversation[i], "chairman_response")

\* The summary handed to Stage 3, the entries it is due to hold and where
\* the line of each starts in it.
Summary == stage3_input.conversation_context[1]
KeptCount == IF Len(history) < 6 THEN Len(history) ELSE 6
Kept(k) == history[Len(history) - KeptCount + k]
RolePrefix(entry) == IF entry.role = "user" THEN "User: " ELSE "Assistant: "
BodyLength(entry) ==
    IF Len(entry.content) <= 500 THEN Len(entry.content) ELSE 500 + 3
LineLength(entry) == Len(RolePrefix(entry)) + BodyLength(entry)
RECURSIVE LineStart(_)
LineStart(k) ==
    IF k = 1 THEN 0 ELSE LineStart(k - 1) + LineLength(Kept(k - 1)) + 1
Body(k) ==
    SubSeq(Summary, LineStart(k) + Len(RolePrefix(Kept(k))) + 1,
           LineStart(k) + LineLength(Kept(k)))

\* C19: the summary is one line for each of the last min(len, 6) entries of
\* the history, in their order, and nothing else; the text of an entry of at
\* most 500 characters is unchanged, a longer one is its first 500
\* characters followed by "..."; an empty history has no summary.
C19_HistorySummary ==
    Stage3Called =>
        IF history = <<>>
        THEN stage3_input.conversation_context = NoContext
        ELSE /\ stage3_input.conversation_context # NoContext
             /\ Len(Summary) = LineStart(KeptCount) + LineLength(Kept(KeptCount))
             /\ \A k \in 1..KeptCount :
                   /\ k > 1 => SubSeq(Summary, LineStart(k), LineStart(k)) = "\n"
                   /\ SubSeq(Summary, LineStart(k) + 1,
                             LineStart(k) + Len(RolePrefix(Kept(k)))) = RolePrefix(Kept(k))
                   /\ IF Len(Kept(k).content) <= 500
                      THEN Body(k) = Kept(k).content
                      ELSE /\ SubSeq(Body(k), 1, 500) = SubSeq(Kept(k).content, 1, 500)
                           /\ SubSeq(Body(k), 501, 503) = "..."

\* A history of more than six entries was summarised; among the six kept are
\* a text of exactly 500 characters and a longer one.
C19_Witness ==
    /\ Stage3Called
    /\ Len(history) > 6
    /\ Len(history[1].content) > 500
    /\ \E k \in 1..KeptCount : Len(Kept(k).content) = 500
    /\ \E k \in 1..KeptCount : Len(Kept(k).content) > 500

\* The chairman call of the turn at position p has returned a failure and
\* the turn takes its next step.
ChairmanFailedAt(p) ==
    /\ pc = p
    /\ pending = {}
    /\ Checkpoint
    /\ settled[CHAIRMAN_MODEL] = Failure
    /\ pc' # pc
FailedResult == [model |-> CHAIRMAN_MODEL, response |-> FailedText]

\* C20: a failed chairman call, in Stage 3 or on the chairman-only path,
\* gives the result with the fixed failure text and raises nothing: Stage 3
\* completes with that result and the turn goes on to its title or its
\* storage; on the chairman-only path the message with that result is stored
\* and the turn goes on to complete, unless the storage write itself raises.
\* A turn that completed with the failure text has it in its stored message.
C20_ChairmanFailureSentinel ==
    /\ [][/\ ChairmanFailedAt("stage3_call") =>
                /\ stage3' = FailedResult
                /\ outcome' = "none"
                /\ pc' \in {"title", "commit"}
                /\ Last(events') = "stage3_complete"
          /\ ChairmanFailedAt("chairman_call") =>
                /\ result' = FailedResult
                /\ outcome' # "error" =>
                      /\ stored' = Append(stored, ChairmanMessage(FailedResult))
                      /\ outcome' = "none"
                      /\ pc' = "chairman_done"
                      /\ Last(events') = "chairman_complete"
          /\ pc = "chairman_done" =>
                pc' = "done" /\ outcome' = "complete" /\ stored' = stored]_vars
    /\ [](outcome = "complete" =>
            /\ mode = "council" =>
                  /\ Has(Last(stored), "stage3")
                  /\ Last(stored).stage3 = stage3
                  /\ stage3.response = FailedText =>
                        Last(events) = "complete"
            /\ mode = "chairman" =>
                  /\ Has(Last(stored), "chairman_response")
                  /\ Last(stored).chairman_response = result)

\* Two turns completed and are stored, a council turn and a chairman-only
\* turn, each with a failed chairman call.
C20_Witness ==
    /\ outcome = "complete"
    /\ mode = "chairman"
    /\ result = FailedResult
    /\ Last(stored) = ChairmanMessage(FailedResult)
    /\ \E i \in DOMAIN stored :
          /\ Has(stored[i], "stage3")
          /\ stored[i].stage3 = FailedResult

(***************************************************************************)
(* DocumentPanel (PersonalityManager.jsx: handleDeleteClick).  The first   *)
(* click on a document's delete button sets deleteConfirm and schedules a  *)
(* timeout of 3 seconds that resets it; a click while deleteConfirm is     *)
(* that document calls onDelete and resets deleteConfirm when it returns.  *)
(* The timeouts have one delay, so they fire in the order they were set.   *)
(***************************************************************************)
MaxClicks == 4

DocumentIds == {"doc1", "doc2"}

\* What the panel leaves alone.
notPanel == <<backend, appVars, chatVars, netVars, sseVars>>

\* The documents listed: those no onDelete call has removed.
Deleted == {onDeleteCalls[i].docId :
               i \in {j \in DOMAIN onDeleteCalls : onDeleteCalls[j].state = "deleted"}}
Listed == DocumentIds \ Deleted

\* An onDelete(docId) invocation, made by the click of number click while
\* the confirmation set by the click of number confirms was pending.
OnDeleteCall(docId, click, confirms) ==
    [docId |-> docId, click |-> click, confirms |-> confirms, state |-> "pending"]

\* handleDeleteClick that deletes on the first click.
handleDeleteClickUnconfirmed(docId) ==
    /\ docId \in Listed
    /\ Len(clicks) < MaxClicks
    /\ clicks' = Append(clicks, docId)
    /\ onDeleteCalls' = Append(onDeleteCalls,
                               OnDeleteCall(docId, Len(clicks) + 1, confirmClick))
    /\ UNCHANGED <<deleteConfirm, timeouts, confirmClick>>
    /\ UNCHANGED notPanel

\* handleDeleteClick up to its await or its end.
handleDeleteClick(docId) ==
    /\ docId \in Listed
    /\ Len(clicks) < MaxClicks
    /\ clicks' = Append(clicks, docId)
    /\ IF deleteConfirm = docId
       THEN /\ onDeleteCalls' = Append(onDeleteCalls,
                                       OnDeleteCall(docId, Len(clicks) + 1, confirmClick))
            /\ UNCHANGED <<deleteConfirm, timeouts, confirmClick>>
       ELSE /\ deleteConfirm' = docId
            /\ confirmClick' = Len(clicks) + 1
            /\ timeouts' = Append(timeouts, Len(clicks) + 1)
            /\ UNCHANGED onDeleteCalls
    /\ UNCHANGED notPanel

\* handleDeleteClick after await onDelete(docId): setDeleteConfirm(null),
\* unless onDelete threw.
onDeleteReturns(i, ok) ==
    /\ i \in DOMAIN onDeleteCalls
    /\ onDeleteCalls[i].state = "pending"
    /\ onDeleteCalls' = [onDeleteCalls EXCEPT ![i].state =
                            IF ok THEN "deleted" ELSE "failed"]
    /\ IF ok
       THEN deleteConfirm' = NoDocument /\ confirmClick' = 0
       ELSE UNCHANGED <<deleteConfirm, confirmClick>>
    /\ UNCHANGED <<timeouts, clicks>>
    /\ UNCHANGED notPanel

\* The callback of setTimeout: setDeleteConfirm(null).
TimeoutFires ==
    /\ timeouts # <<>>
    /\ timeouts' = Tail(timeouts)
    /\ deleteConfirm' = NoDocument
    /\ confirmClick' = 0
    /\ UNCHANGED <<onDeleteCalls, clicks>>
    /\ UNCHANGED notPanel

InitPanel == BackendIdle /\ FrontendIdle

NextPanel ==
    \/ \E docId \in DocumentIds : handleDeleteClick(docId)
    \/ \E i \in 1..MaxClicks : \E ok \in BOOLEAN : onDeleteReturns(i, ok)
    \/ TimeoutFires

SpecPanel == InitPanel /\ [][NextPanel]_vars

\* The onDelete invocation a step makes, if it makes one.
Invokes == Len(onDeleteCalls') = Len(onDeleteCalls) + 1
Invoked == onDeleteCalls'[Len(onDeleteCalls')]

\* C25: onDelete(docId) is invoked only by a click on docId made while
\* deleteConfirm is docId, and deleteConfirm is docId only through an
\* earlier click on docId; so the first click on a document, and a click
\* after a first click on another document, delete nothing.
C25_DeleteNeedsConfirmation ==
    /\ [](deleteConfirm # NoDocument =>
            /\ confirmClick \in DOMAIN clicks
            /\ clicks[confirmClick] = deleteConfirm)
    /\ [][Invokes =>
            /\ clicks' = Append(clicks, Invoked.docId)
            /\ deleteConfirm = Invoked.docId
            /\ Invoked.confirms \in DOMAIN clicks
            /\ clicks[Invoked.confirms] = Invoked.docId]_vars

\* A document was deleted by its second click, after a click on the other
\* document that deleted nothing.
C25_Witness ==
    /\ Len(onDeleteCalls) = 1
    /\ onDeleteCalls[1].state = "deleted"
    /\ Len(clicks) = 3
    /\ clicks[1] # clicks[2]
    /\ clicks[2] = clicks[3]
    /\ onDeleteCalls[1].click = 3

\* C29: a pending confirmation is cleared only by the timeout its own first
\* click scheduled or by the return of its confirming second click.
C29_OwnTimeoutOnly ==
    [][deleteConfirm # NoDocument /\ deleteConfirm' = NoDocument =>
          \/ /\ timeouts # <<>>
             /\ timeouts' = Tail(timeouts)
             /\ Head(timeouts) = confirmClick
          \/ \E i \in DOMAIN onDeleteCalls :
                /\ onDeleteCalls[i].state = "pending"
                /\ onDeleteCalls'[i].state = "deleted"
                /\ onDeleteCalls[i].confirms = confirmClick]_vars

(***************************************************************************)
(* api.js: sendMessageStream, the read loop.  The server writes every      *)
(* event as the line "data: <json>" followed by an empty line (main.py:    *)
(* yield f"data: {json.dumps(...)}\n\n"); the network delivers the body    *)
(* cut into chunks at any places.  Every chunk is decoded and split at     *)
(* "\n" on its own; a line that starts with "data: " is parsed and, if     *)
(* JSON.parse does not throw, handed to onEvent.                           *)
(***************************************************************************)
MaxChunks == 3

EventTypes ==
    {"stage1_start", "stage1_complete", "stage2_start", "stage2_complete",
     "stage3_start", "stage3_complete", "title_complete", "chairman_start",
     "chairman_complete", "complete", "error", "cancelled"}

\* json.dumps({'type': type}) and the SSE frame the generator yields.
EventJson(type) == "{\"type\": \"" \o type \o "\"}"
SseFrame(type) == "data: " \o EventJson(type) \o "\n\n"
RECURSIVE ResponseBody(_)
ResponseBody(types) ==
    IF types = <<>> THEN "" ELSE SseFrame(Head(types)) \o ResponseBody(Tail(types))

\* chunk.split('\n')
Newlines(text) == {i \in 1..Len(text) : SubSeq(text, i, i) = "\n"}
FirstNewline(text) == CHOOSE i \in Newlines(text) : \A j \in Newlines(text) : i <= j
RECURSIVE split(_)
split(text) ==
    IF Newlines(text) = {}
    THEN <<text>>
    ELSE <<SubSeq(text, 1, FirstNewline(text) - 1)>>
            \o split(SubSeq(text, FirstNewline(text) + 1, Len(text)))

\* line.startsWith('data: ') and line.slice(6)
startsWith(line, prefix) ==
    Len(line) >= Len(prefix) /\ SubSeq(line, 1, Len(prefix)) = prefix
slice(line, from) == SubSeq(line, from + 1, Len(line))

\* JSON.parse(data) followed by event.type: the text of a whole event
\* gives its type; any other text met here is a proper prefix of one, on
\* which JSON.parse throws.
Parses(data) == \E type \in EventTypes : data = EventJson(type)
TypeOf(data) == CHOOSE type \in EventTypes : data = EventJson(type)

\* The onEvent calls the loop body makes for one line, then for the lines
\* of one chunk.
EventsOfLine(line) ==
    IF startsWith(line, "data: ") /\ Parses(slice(line, 6))
    THEN <<TypeOf(slice(line, 6))>>
    ELSE <<>>
RECURSIVE EventsOfLines(_)
EventsOfLines(lines) ==
    IF lines = <<>> THEN <<>>
    ELSE EventsOfLine(Head(lines)) \o EventsOfLines(Tail(lines))

notSse == <<backend, appVars, chatVars, netVars, panelVars>>

\* One turn of the while loop: reader.read() gives the next chunk.
ReadChunk ==
    /\ chunks # <<>>
    /\ onEventCalls' = onEventCalls \o EventsOfLines(split(Head(chunks)))
    /\ chunks' = Tail(chunks)
    /\ UNCHANGED emitted
    /\ UNCHANGED notSse

\* The ways a text is cut into at most n chunks, none empty.
RECURSIVE Cuts(_, _)
Cuts(text, n) ==
    {<<text>>} \cup
    (IF n = 1 THEN {}
     ELSE UNION {{<<SubSeq(text, 1, i)>> \o rest :
                     rest \in Cuts(SubSeq(text, i + 1, Len(text)), n - 1)} :
                 i \in 1..(Len(text) - 1)})

\* The streams read: short ones of the backend, which end in a terminal
\* event.
StreamsRead == {<<"error">>, <<"chairman_start", "error">>, <<"complete">>}

InitSse ==
    /\ BackendIdle
    /\ AppIdle /\ ChatIdle /\ NetIdle /\ PanelIdle
    /\ emitted \in StreamsRead
    /\ onEventCalls = <<>>
    /\ chunks \in Cuts(ResponseBody(emitted), MaxChunks)

NextSse == ReadChunk

SpecSse == InitSse /\ [][NextSse]_vars

\* C22: however the body is cut into chunks, onEvent has been invoked once
\* for each event emitted, in emission order: during the read with the
\* events of a prefix, at its end with all of them.
C22_EveryEventOnce ==
    /\ IsPrefix(onEventCalls, emitted)
    /\ chunks = <<>> => onEventCalls = emitted

(***************************************************************************)
(* The chat client: App.jsx (handleSelectConversation, loadConversation,   *)
(* handleSendMessage and its stream event handler), ChatInterface.jsx      *)
(* (handleSubmit, the mode and include-documents inputs, the rendering of  *)
(* an assistant message) and api.js (sendMessageStream), against a backend *)
(* that routes, stores and yields as send_message_stream does.  The body   *)
(* of a stream is read here one whole event at a time.                     *)
(***************************************************************************)
MaxClientTurns == 2
MaxOpenTurns == 3
MaxSelections == 2

ConversationIds == {"conv1", "conv2"}
Question == "question"

\* The objects handleSendMessage creates.  turn is the identity of the
\* object: the turn it was created for.
OptimisticUserMessage(content, turn) ==
    [role |-> "user", content |-> content, turn |-> turn]
ChairmanPlaceholder(turn) ==
    [role |-> "assistant", chairman_response |-> Null, isLoading |-> TRUE,
     turn |-> turn]
CouncilPlaceholder(turn) ==
    [role |-> "assistant", stage1 |-> Null, stage2 |-> Null, stage3 |-> Null,
     metadata |-> Null,
     loading |-> [stage1 |-> FALSE, stage2 |-> FALSE, stage3 |-> FALSE],
     turn |-> turn]
Placeholder(effectiveMode, turn) ==
    IF effectiveMode = "chairman"
    THEN ChairmanPlaceholder(turn)
    ELSE CouncilPlaceholder(turn)

\* event.data and event.metadata of the events of a turn.
TurnNames == <<"0", "1", "2", "3", "4">>
EventData(type, turn) == type \o "-" \o TurnNames[turn + 1]

\* msg.field = value
SetField(msg, field, value) ==
    [f \in DOMAIN msg \cup {field} |-> IF f = field THEN value ELSE msg[f]]

\* The events whose case calls setCurrentConversation.
UpdaterEvents ==
    {"stage1_start", "stage1_complete", "stage2_start", "stage2_complete",
     "stage3_start", "stage3_complete", "chairman_start", "chairman_complete"}

\* The loading flag an event's updater writes, if it writes one.
LoadingFlag(type) ==
    CASE type \in {"stage1_start", "stage1_complete"} -> "stage1"
      [] type \in {"stage2_start", "stage2_complete"} -> "stage2"
      [] type \in {"stage3_start", "stage3_complete"} -> "stage3"
      [] OTHER -> Null

\* The updater throws a TypeError: there is no last message, or the event
\* writes lastMsg.loading.<stage> and the last message has no loading.
Throws(type, messages) ==
    \/ messages = <<>>
    \/ LoadingFlag(type) # Null /\ ~Has(Last(messages), "loading")

\* The last message after the updater of the event has run.
Updated(type, turn, lastMsg) ==
    CASE type = "stage1_start" -> [lastMsg EXCEPT !.loading.stage1 = TRUE]
      [] type = "stage1_complete" ->
            [SetField(lastMsg, "stage1", EventData("stage1", turn))
                EXCEPT !.loading.stage1 = FALSE]
      [] type = "stage2_start" -> [lastMsg EXCEPT !.loading.stage2 = TRUE]
      [] type = "stage2_complete" ->
            [SetField(SetField(lastMsg, "stage2", EventData("stage2", turn)),
                      "metadata", EventData("metadata", turn))
                EXCEPT !.loading.stage2 = FALSE]
      [] type = "stage3_start" -> [lastMsg EXCEPT !.loading.stage3 = TRUE]
      [] type = "stage3_complete" ->
            [SetField(lastMsg, "stage3", EventData("stage3", turn))
                EXCEPT !.loading.stage3 = FALSE]
      [] type = "chairman_start" -> SetField(lastMsg, "isLoading", TRUE)
      [] type = "chairman_complete" ->
            SetField(SetField(lastMsg, "chairman_response",
                              EventData("chairman_response", turn)),
                     "isLoading", FALSE)

\* messages with its last element replaced.
WithLast(messages, lastMsg) == [messages EXCEPT ![Len(messages)] = lastMsg]

\* prev.messages.slice(0, -2)
DropLastTwo(messages) ==
    IF Len(messages) <= 2 THEN <<>> ELSE SubSeq(messages, 1, Len(messages) - 2)

(***************************************************************************)
(* ChatInterface.jsx: what is rendered for an assistant message.           *)
(***************************************************************************)
Truthy(msg, field) ==
    Has(msg, field) /\ IF field = "cancelled" THEN msg[field] ELSE msg[field] # Null
LoadingShown(msg, stage) ==
    Has(msg, "loading") /\ msg.loading[stage]

Rendered(msg) ==
    IF Truthy(msg, "stage1")
    THEN {"council"}
         \cup (IF LoadingShown(msg, "stage1") THEN {"stage1-loading"} ELSE {})
         \cup (IF Truthy(msg, "stage1") THEN {"Stage1"} ELSE {})
         \cup (IF LoadingShown(msg, "stage2") THEN {"stage2-loading"} ELSE {})
         \cup (IF Truthy(msg, "stage2") THEN {"Stage2"} ELSE {})
         \cup (IF LoadingShown(msg, "stage3") THEN {"stage3-loading"} ELSE {})
         \cup (IF Truthy(msg, "stage3") THEN {"Stage3"} ELSE {})
    ELSE IF Truthy(msg, "chairman_response") THEN {"chairman-response"}
    ELSE IF Truthy(msg, "cancelled") THEN {"cancelled-response"}
    ELSE {}

(***************************************************************************)
(* The backend as the client meets it: the stored messages of every        *)
(* conversation and, for every request, the routing and the events of      *)
(* send_message_stream.generate().                                         *)
(***************************************************************************)
StoredUser == [role |-> "user", content |-> Question]
StoredCouncil(turn) ==
    [role |-> "assistant", stage1 |-> EventData("stage1", turn),
     stage2 |-> EventData("stage2", turn), stage3 |-> EventData("stage3", turn)]
StoredChairman(turn) ==
    [role |-> "assistant",
     chairman_response |-> EventData("chairman_response", turn)]
StoredCancelled == [role |-> "assistant", cancelled |-> TRUE]

\* The events generate() yields when nothing fails, by routed mode.
StreamOrder(routed, first) ==
    IF routed = "chairman" THEN <<"chairman_start", "chairman_complete", "complete">>
    ELSE IF first
    THEN <<"stage1_start", "stage1_complete", "stage2_start", "stage2_complete",
           "stage3_start", "stage3_complete", "title_complete", "complete">>
    ELSE <<"stage1_start", "stage1_complete", "stage2_start", "stage2_complete",
           "stage3_start", "stage3_complete", "complete">>

Terminal == {"complete", "error", "cancelled"}
Ended(stream) ==
    stream.events # <<>> /\ Last(stream.events) \in Terminal

\* The events before which generate() calls the storage, which can raise:
\* add_chairman_message, update_conversation_title, add_assistant_message.
AfterStorage(routed) ==
    IF routed = "chairman" THEN {"chairman_complete"}
    ELSE {"title_complete", "complete"}

\* What generate() can yield next: error from the except clause when
\* add_user_message raised; else the next event of the order, error in
\* its place when the storage call before it raised, or cancelled at a
\* checkpoint after the start.
NextEvents(stream) ==
    IF Ended(stream) THEN {}
    ELSE IF ~stream.userStored THEN {"error"}
    ELSE LET next == StreamOrder(stream.routed, stream.first)[Len(stream.events) + 1]
         IN {next}
            \cup (IF next \in AfterStorage(stream.routed) THEN {"error"} ELSE {})
            \cup (IF stream.events # <<>> THEN {"cancelled"} ELSE {})

\* The message the backend stores before it yields the event.
StoredBefore(stream, turn, type) ==
    CASE type = "chairman_complete" -> <<StoredChairman(turn)>>
      [] type = "complete" /\ stream.routed = "council" -> <<StoredCouncil(turn)>>
      [] type = "cancelled" -> <<StoredCancelled>>
      [] OTHER -> <<>>

notClient == <<backend, sseVars, panelVars>>

\* A sendMessageStream call neither returned nor thrown.
Running(stream) == stream.state \in {"requested", "open"}

(***************************************************************************)
(* App.jsx: selecting and loading a conversation.                          *)
(***************************************************************************)
\* handleSelectConversation(id) and the effect on currentConversationId,
\* which starts loadConversation(id).
handleSelectConversation(id) ==
    /\ ~crashed
    /\ selections < MaxSelections
    /\ id # currentConversationId
    /\ currentConversationId' = id
    /\ selections' = selections + 1
    /\ loads' = loads \cup {id}
    /\ streams' = [t \in DOMAIN streams |->
                      IF Running(streams[t]) /\ id # streams[t].conversationId
                      THEN [streams[t] EXCEPT !.reselected = TRUE]
                      ELSE streams[t]]
    /\ UNCHANGED <<currentConversation, isLoading, crashed, chatVars, serverMessages>>
    /\ UNCHANGED notClient

\* loadConversation(id) after await api.getConversation(id):
\* setCurrentConversation(conv), or the catch when the call failed.
loadConversation(id, ok) ==
    /\ id \in loads
    /\ loads' = loads \ {id}
    /\ IF ok /\ ~crashed
       THEN currentConversation' = [id |-> id, messages |-> serverMessages[id]]
       ELSE UNCHANGED currentConversation
    /\ UNCHANGED <<currentConversationId, isLoading, crashed, selections, chatVars,
                   streams, serverMessages>>
    /\ UNCHANGED notClient

(***************************************************************************)
(* ChatInterface.jsx: the inputs of the form.  The form is rendered when   *)
(* there is a conversation, the mode selector when it has messages, the    *)
(* checkbox when there are active documents.                               *)
(***************************************************************************)
FormRendered == ~crashed /\ currentConversation # NoConversation
ActiveDocuments == {i \in DOMAIN documents : documents[i].is_active}

setMode(m) ==
    /\ FormRendered
    /\ currentConversation.messages # <<>>
    /\ m # chatMode
    /\ chatMode' = m
    /\ UNCHANGED <<appVars, includeDocuments, documents, netVars>>
    /\ UNCHANGED notClient

setIncludeDocuments(checked) ==
    /\ FormRendered
    /\ ActiveDocuments # {}
    /\ checked # includeDocuments
    /\ includeDocuments' = checked
    /\ UNCHANGED <<appVars, chatMode, documents, netVars>>
    /\ UNCHANGED notClient

(***************************************************************************)
(* api.js: the request of sendMessageStream(conversationId, content, mode, *)
(* onEvent, includeDocuments = true).                                      *)
(***************************************************************************)
DefaultIncludeDocuments == TRUE
StreamRequest(content, modeArg, includeDocumentsArg) ==
    [content |-> content, mode |-> modeArg, include_documents |-> includeDocumentsArg]

(***************************************************************************)
(* App.jsx: handleSendMessage(content, mode) up to the fetch of            *)
(* sendMessageStream.  ChatInterface calls it with a third argument, the   *)
(* checkbox state, for which it has no parameter; it is kept in the record *)
(* of the call, as are the messages displayed before the submission.       *)
(***************************************************************************)
handleSendMessage(content, modeArg, checkbox) ==
    /\ currentConversationId # Null
    /\ LET turn == Len(streams) + 1
           isFirstMessage == currentConversation.messages = <<>>
           effectiveMode == IF isFirstMessage THEN "council" ELSE modeArg
       IN /\ isLoading' = TRUE
          /\ currentConversation' =
                [currentConversation EXCEPT !.messages =
                    @ \o <<OptimisticUserMessage(content, turn),
                           Placeholder(effectiveMode, turn)>>]
          /\ streams' = Append(streams,
                [conversationId |-> currentConversationId,
                 request |-> StreamRequest(content, effectiveMode,
                                           DefaultIncludeDocuments),
                 state |-> "requested",
                 first |-> FALSE,
                 routed |-> Null,
                 userStored |-> FALSE,
                 events |-> <<>>,
                 checkbox |-> checkbox,
                 placeholder |-> effectiveMode,
                 before |-> currentConversation.messages,
                 reselected |-> FALSE])
    /\ UNCHANGED <<currentConversationId, crashed, selections, chatVars, loads,
                   serverMessages>>
    /\ UNCHANGED notClient

\* ChatInterface.handleSubmit: if (input.trim() && !isLoading)
\*     onSendMessage(input, mode, includeDocuments)
handleSubmit ==
    /\ FormRendered
    /\ ~isLoading
    /\ handleSendMessage(Question, chatMode, includeDocuments)

\* A submission while fewer than maxTurns turns have been submitted.
SubmitWithin(maxTurns) ==
    /\ Len(streams) < maxTurns
    /\ handleSubmit

(***************************************************************************)
(* The backend takes the request: generate() computes is_first_message    *)
(* and the mode and calls add_user_message, which raises when writeOk is   *)
(* FALSE.                                                                  *)
(***************************************************************************)
ServerAccepts(t, writeOk) ==
    /\ t \in DOMAIN streams
    /\ streams[t].state = "requested"
    /\ LET id == streams[t].conversationId
           first == serverMessages[id] = <<>>
       IN /\ streams' = [streams EXCEPT
                 ![t].state = "open",
                 ![t].first = first,
                 ![t].routed = RouteMode(first, streams[t].request.mode),
                 ![t].userStored = writeOk]
          /\ serverMessages' =
                IF writeOk
                THEN [serverMessages EXCEPT ![id] = Append(@, StoredUser)]
                ELSE serverMessages
    /\ UNCHANGED <<appVars, chatVars, loads>>
    /\ UNCHANGED notClient

(***************************************************************************)
(* App.jsx: the event handler handed to sendMessageStream.  An updater     *)
(* that throws unmounts the application; nothing is displayed or set       *)
(* after that.                                                             *)
(***************************************************************************)
onEvent(type, turn) ==
    IF crashed
    THEN UNCHANGED <<currentConversation, isLoading, crashed>>
    ELSE IF type \in UpdaterEvents
    THEN IF currentConversation = NoConversation
            \/ Throws(type, currentConversation.messages)
         THEN /\ crashed' = TRUE
              /\ UNCHANGED <<currentConversation, isLoading>>
         ELSE /\ currentConversation' =
                    [currentConversation EXCEPT !.messages =
                        WithLast(@, Updated(type, turn, Last(@)))]
              /\ UNCHANGED <<isLoading, crashed>>
    ELSE IF type \in {"complete", "error"}
    THEN /\ isLoading' = FALSE
         /\ UNCHANGED <<currentConversation, crashed>>
    ELSE UNCHANGED <<currentConversation, isLoading, crashed>>

\* generate() yields an event, after the storage call that precedes it,
\* and the read loop of sendMessageStream hands it to onEvent.
Yield(t, type) ==
    /\ t \in DOMAIN streams
    /\ streams[t].state = "open"
    /\ type \in NextEvents(streams[t])
    /\ streams' = [streams EXCEPT ![t].events = Append(@, type)]
    /\ serverMessages' =
          [serverMessages EXCEPT ![streams[t].conversationId] =
              @ \o StoredBefore(streams[t], t, type)]
    /\ onEvent(type, t)
    /\ UNCHANGED <<currentConversationId, selections, chatVars, loads>>
    /\ UNCHANGED notClient

\* reader.read() gives done: sendMessageStream returns and
\* handleSendMessage ends.  The body can end before a terminal event.
ReaderDone(t) ==
    /\ t \in DOMAIN streams
    /\ streams[t].state = "open"
    /\ streams' = [streams EXCEPT ![t].state = "returned"]
    /\ UNCHANGED <<appVars, chatVars, loads, serverMessages>>
    /\ UNCHANGED notClient

\* sendMessageStream throws (fetch rejects, the response is not ok, or
\* reader.read() rejects): the catch of handleSendMessage.
SendThrows(t) ==
    /\ t \in DOMAIN streams
    /\ Running(streams[t])
    /\ streams' = [streams EXCEPT ![t].state = "thrown"]
    /\ IF crashed
       THEN UNCHANGED <<currentConversation, isLoading, crashed>>
       ELSE IF currentConversation = NoConversation
       THEN crashed' = TRUE /\ UNCHANGED <<currentConversation, isLoading>>
       ELSE /\ currentConversation' =
                  [currentConversation EXCEPT !.messages = DropLastTwo(@)]
            /\ isLoading' = FALSE
            /\ UNCHANGED crashed
    /\ UNCHANGED <<currentConversationId, selections, chatVars, loads,
                   serverMessages>>
    /\ UNCHANGED notClient

\* The conversations on the backend at the start: a new one and one with
\* a completed council turn, or two of the latter.
StoresAtStart ==
    {[id \in ConversationIds |->
         IF id = "conv2" THEN <<StoredUser, StoredCouncil(0)>> ELSE <<>>],
     [id \in ConversationIds |-> <<StoredUser, StoredCouncil(0)>>]}

\* The documents prop with an active document (PLAN.md 2.4: App passes the
\* document props to ChatInterface).
DocumentsProp == <<[id |-> "doc1", is_active |-> TRUE]>>

InitClient ==
    /\ BackendIdle
    /\ SseIdle /\ PanelIdle
    /\ AppIdle
    /\ chatMode = "chairman"
    /\ includeDocuments = TRUE
    /\ documents = NoDocuments
    /\ streams = <<>>
    /\ loads = {}
    /\ serverMessages \in StoresAtStart

NextClient ==
    \/ \E id \in ConversationIds : handleSelectConversation(id)
    \/ \E id \in ConversationIds : \E ok \in BOOLEAN : loadConversation(id, ok)
    \/ \E m \in {"chairman", "council"} : setMode(m)
    \/ SubmitWithin(MaxClientTurns)
    \/ \E t \in 1..MaxClientTurns : \E writeOk \in BOOLEAN : ServerAccepts(t, writeOk)
    \/ \E t \in 1..MaxClientTurns : \E type \in EventTypes : Yield(t, type)
    \/ \E t \in 1..MaxClientTurns : ReaderDone(t)
    \/ \E t \in 1..MaxClientTurns : SendThrows(t)

SpecClient == InitClient /\ [][NextClient]_vars

(***************************************************************************)
(* The chat input with documents: a conversation is selected and loaded,   *)
(* and the documents prop holds an active document, so that the "Include   *)
(* documents" checkbox is rendered.                                        *)
(***************************************************************************)
InitInclude ==
    /\ BackendIdle
    /\ SseIdle /\ PanelIdle
    /\ serverMessages \in StoresAtStart
    /\ currentConversationId \in ConversationIds
    /\ currentConversation =
          [id |-> currentConversationId,
           messages |-> serverMessages[currentConversationId]]
    /\ isLoading = FALSE
    /\ crashed = FALSE
    /\ selections = 1
    /\ chatMode = "chairman"
    /\ includeDocuments = TRUE
    /\ documents = DocumentsProp
    /\ streams = <<>>
    /\ loads = {}

NextInclude ==
    \/ \E checked \in BOOLEAN : setIncludeDocuments(checked)
    \/ SubmitWithin(MaxClientTurns)
    \/ \E t \in 1..MaxClientTurns : \E writeOk \in BOOLEAN : ServerAccepts(t, writeOk)
    \/ \E t \in 1..MaxClientTurns : \E type \in EventTypes : Yield(t, type)
    \/ \E t \in 1..MaxClientTurns : ReaderDone(t)
    \/ \E t \in 1..MaxClientTurns : SendThrows(t)

SpecInclude == InitInclude /\ [][NextInclude]_vars

(***************************************************************************)
(* Turns in one conversation, selected and loaded, one after the other:    *)
(* no selection, no documents, the mode selector at its default.           *)
(***************************************************************************)
InitTurns ==
    /\ BackendIdle
    /\ SseIdle /\ PanelIdle
    /\ serverMessages \in StoresAtStart
    /\ currentConversationId \in ConversationIds
    /\ currentConversation =
          [id |-> currentConversationId,
           messages |-> serverMessages[currentConversationId]]
    /\ isLoading = FALSE
    /\ crashed = FALSE
    /\ selections = 1
    /\ chatMode = "chairman"
    /\ includeDocuments = TRUE
    /\ documents = NoDocuments
    /\ streams = <<>>
    /\ loads = {}

NextTurns ==
    \/ SubmitWithin(MaxOpenTurns)
    \/ \E t \in 1..MaxOpenTurns : \E writeOk \in BOOLEAN : ServerAccepts(t, writeOk)
    \/ \E t \in 1..MaxOpenTurns : \E type \in EventTypes : Yield(t, type)
    \/ \E t \in 1..MaxOpenTurns : ReaderDone(t)
    \/ \E t \in 1..MaxOpenTurns : SendThrows(t)

SpecTurns == InitTurns /\ [][NextTurns]_vars

Displayed ==
    IF crashed THEN <<>> ELSE currentConversation.messages
IsCouncilPlaceholder(msg) == Has(msg, "loading")

\* C28: for every displayed council placeholder the council branch is
\* rendered, also before its stage1 data has arrived, and while its
\* loading.stage1 is true the Stage 1 loading indicator is rendered.
C28_Stage1LoadingRendered ==
    \A i \in DOMAIN Displayed :
        IsCouncilPlaceholder(Displayed[i]) =>
            /\ "council" \in Rendered(Displayed[i])
            /\ Displayed[i].loading.stage1 =>
                  "stage1-loading" \in Rendered(Displayed[i])

\* A placeholder with loading.stage1 set is displayed.
C28_Witness ==
    \E i \in DOMAIN Displayed :
        /\ IsCouncilPlaceholder(Displayed[i])
        /\ Displayed[i].loading.stage1

\* The turns the backend has routed.
Routed == {t \in DOMAIN streams : streams[t].routed # Null}

\* C30: the placeholder created for a turn is of the mode the backend
\* routes the turn to.
C30_PlaceholderMatchesRoute ==
    \A t \in Routed : streams[t].placeholder = streams[t].routed

\* With one conversation selected once and displayed: the first turn ended
\* in error, and the second turn got a chairman placeholder while the
\* backend routed it to the council.
C30_Witness ==
    /\ selections = 1
    /\ loads = {}
    /\ Len(streams) = 2
    /\ streams[1].events = <<"error">>
    /\ streams[2].conversationId = streams[1].conversationId
    /\ streams[2].placeholder = "chairman"
    /\ streams[2].routed = "council"
    /\ "stage1_start" \in Range(streams[2].events)
    /\ crashed

\* The turns of which the step hands an event to onEvent.
Yielding == {t \in DOMAIN streams : streams'[t].events # streams[t].events}
IsPlaceholderOf(msg, t) ==
    /\ msg.role = "assistant"
    /\ Has(msg, "turn")
    /\ msg.turn = t

\* C27: an event of the stream of a turn changes no displayed message but
\* the assistant placeholder created for that turn.
C27_OnlyOwnPlaceholder ==
    [][\A t \in Yielding :
          /\ Len(currentConversation'.messages) = Len(currentConversation.messages)
          /\ \A i \in DOMAIN currentConversation.messages :
                currentConversation'.messages[i] # currentConversation.messages[i]
                    => IsPlaceholderOf(currentConversation.messages[i], t)]_vars

\* Another conversation was selected and loaded while the stream of a turn
\* was open, and an event of the stream has then been handled.
C27_Witness ==
    \E t \in DOMAIN streams :
        /\ streams[t].reselected
        /\ currentConversation.id # streams[t].conversationId
        /\ currentConversation.messages # <<>>
        /\ ~crashed
        /\ "chairman_complete" \in Range(streams[t].events)


\* The streams whose event stream is still open: the request is under way
\* and no terminal event has been delivered.
StillOpen == {t \in DOMAIN streams : Running(streams[t]) /\ ~Ended(streams[t])}

\* C24: a turn is submitted only while isLoading is false, isLoading is
\* true after the submission, and no turn stream is started while the
\* event stream of an earlier turn is still open.
C24_SingleTurn ==
    [][Len(streams') > Len(streams)
          => /\ ~isLoading
             /\ isLoading'
             /\ StillOpen = {}]_vars


\* The calls of sendMessageStream that are over: the connection has
\* closed, after a terminal event or without one.
Over == {t \in DOMAIN streams : ~Running(streams[t])}

\* C26: for every submitted turn, once its stream has ended isLoading
\* eventually becomes false.  isLoading is cleared only by the event
\* handler and the catch of a call that is still running, so the claim
\* requires it to be false once the streams of all turns have ended and
\* no call is running any more.
C26_LoadingCleared ==
    (~crashed /\ streams # <<>> /\ Over = DOMAIN streams) => ~isLoading

\* C23: when sendMessageStream throws and no other conversation was
\* selected since the submission, the displayed messages are those
\* displayed before the submission and isLoading is false.
C23_CatchRestores ==
    [][\A t \in DOMAIN streams :
          (/\ streams[t].state # "thrown"
           /\ streams'[t].state = "thrown"
           /\ ~streams[t].reselected
           /\ ~crashed)
          => /\ currentConversation'.messages = streams[t].before
             /\ ~isLoading']_vars

====
